---- MODULE Spec2Model ----
(***************************************************************************)
(* Model of src/app.py: the value converter converter_valor_brasileiro and *)
(* the two row-extraction handlers processar_faturamento and               *)
(* processar_pedidos.                                                      *)
(*                                                                         *)
(* Python strings are modelled as sequences of one-character strings, so   *)
(* that strip, replace, split and the substring test are computed.         *)
(***************************************************************************)
EXTENDS Integers, Sequences, FiniteSets

\* ------------------------------------------------------------------------
\* Bounds of the model
\* ------------------------------------------------------------------------
\* longest raw string handed to the converter
MaxLen == 4
\* most integer digits of a Brazilian-formatted or canonical amount
MaxIntDigits == 7
\* most <tr> elements of one document
MaxRows == 2
\* widths of a row range over the expected width -/+ WidthSlack
WidthSlack == 1

\* ------------------------------------------------------------------------
\* Characters
\* ------------------------------------------------------------------------
\* the ASCII digits, in the order of their values
ASCII_DIGITS == <<"0", "1", "2", "3", "4", "5", "6", "7", "8", "9">>

\* the Arabic-Indic digits U+0660..U+0669, each written by its code point;
\* they stand for every non-ASCII decimal digit (category Nd), which \d of
\* line 34 keeps and float() of lines 61, 189 and 351 reads by its value
ARABIC_DIGITS == <<"U+0660", "U+0661", "U+0662", "U+0663", "U+0664",
                   "U+0665", "U+0666", "U+0667", "U+0668", "U+0669">>

\* the characters \d matches
Digits == {ASCII_DIGITS[i] : i \in 1..10} \cup {ARABIC_DIGITS[i] : i \in 1..10}

\* the value float() gives a digit
valor_digito(c) ==
    CHOOSE v \in 0..9 : c = ASCII_DIGITS[v + 1] \/ c = ARABIC_DIGITS[v + 1]

\* str.strip() removes whitespace; the space stands for all of it
Whitespace == {" "}

\* the lone surrogate U+D800, written by its code point: a character of a
\* str that no stream encodes, so that a print of a text holding it raises
\* UnicodeEncodeError; it stands for every such character
NAO_CODIFICAVEIS == {"U+D800"}

\* characters of the raw inputs: digits, two of them non-ASCII, both
\* separators, the sign, a space, and a currency letter and a lone
\* surrogate that the regular expression strips
Alphabet == {"0", "1", "U+0660", "U+0663", ".", ",", "-", " ", "R", "U+D800"}

\* digits the generated amounts are written with
AmountDigits == {"0", "1", "9"}

Range(s) == {s[i] : i \in 1..Len(s)}

\* all sequences over S of length 0..n
SeqsUpTo(S, n) == UNION {[1..k -> S] : k \in 0..n}

\* ------------------------------------------------------------------------
\* Python string primitives used by the converter
\* ------------------------------------------------------------------------
RECURSIVE lstrip(_)
lstrip(s) ==
    IF s # <<>> /\ Head(s) \in Whitespace THEN lstrip(Tail(s)) ELSE s

RECURSIVE rstrip(_)
rstrip(s) ==
    IF s # <<>> /\ s[Len(s)] \in Whitespace
    THEN rstrip(SubSeq(s, 1, Len(s) - 1))
    ELSE s

\* valor_str.strip()
strip(s) == rstrip(lstrip(s))

\* valor_limpo.startswith('-')
startswith(s, c) == s # <<>> /\ Head(s) = c

\* re.sub(r'[^\d,.]', '', valor_limpo)
re_sub(s) == SelectSeq(s, LAMBDA c : c \in Digits \cup {",", "."})

\* s.replace(old, new) for a one-character old and a new that is empty
\* or one character, the two uses of lines 42, 44 and 54
replace(s, old, new) ==
    IF new = <<>> THEN SelectSeq(s, LAMBDA c : c # old)
    ELSE [i \in 1..Len(s) |-> IF s[i] = old THEN new[1] ELSE s[i]]

\* position of the first sep in s from position i on, 0 when there is none
find(s, sep, i) ==
    LET at == {j \in i..Len(s) : s[j] = sep}
    IN  IF at = {} THEN 0
        ELSE CHOOSE j \in at : \A k \in i..(j - 1) : s[k] # sep

\* s.split(sep): the list of the parts between the separators
RECURSIVE split(_, _)
split(s, sep) ==
    LET i == find(s, sep, 1)
    IN  IF i = 0 THEN <<s>>
        ELSE <<SubSeq(s, 1, i - 1)>> \o split(SubSeq(s, i + 1, Len(s)), sep)

\* float(valor_final) does not raise.  valor_final is made of digits and
\* '.' with at most a leading '-': float accepts it iff it has at least
\* one digit and at most one '.'.
float_ok(s) ==
    LET u == IF startswith(s, "-") THEN Tail(s) ELSE s
    IN  /\ Range(u) \subseteq Digits \cup {"."}
        /\ Range(u) \cap Digits # {}
        /\ Cardinality({i \in 1..Len(u) : u[i] = "."}) <= 1

\* looks_decimal that never recognises a decimal point
looks_decimal_never(partes) == FALSE

\* the test of line 49 on partes = valor_limpo.split('.')
looks_decimal(partes) == Len(partes) = 2 /\ Len(partes[2]) = 2

\* digits_of that leaves the thousands separators of the comma form
digits_of_keep_dots(valor_limpo) ==
    IF "," \in Range(valor_limpo)
    THEN replace(valor_limpo, ",", <<".">>)
    ELSE IF looks_decimal(split(valor_limpo, "."))
         THEN valor_limpo
         ELSE replace(valor_limpo, ".", <<>>)

\* lines 39-54: the digits and decimal point of the value
digits_of(valor_limpo) ==
    IF "," \in Range(valor_limpo)
    THEN replace(replace(valor_limpo, ".", <<>>), ",", <<".">>)
    ELSE IF looks_decimal(split(valor_limpo, "."))
         THEN valor_limpo
         ELSE replace(valor_limpo, ".", <<>>)

\* the value returned at lines 37 and 67
ZERO == <<"0">>

\* the states of sys.stdout, a text stream with three independent
\* properties:
\*   erros        its error handler: "strict", the default, raises
\*                UnicodeEncodeError for a character without a code;
\*                "replace" writes a substitute for it
\*   codificacao  its encoding: "utf-8" has a code for every character but
\*                the lone surrogates; "ascii" has none for the symbols
\*                the messages of lines 66-392 start with
\*   escrita      what the write of the encoded text does: "none" when it
\*                succeeds, "ValueError" when the file is closed, "OSError"
\*                when the pipe is broken or the disk full
EstadosStdout ==
    [erros : {"strict", "replace"}, codificacao : {"utf-8", "ascii"},
     escrita : {"none", "ValueError", "OSError"}]

\* the stream of a default run: strict, UTF-8, and it writes
STDOUT_PADRAO == [erros |-> "strict", codificacao |-> "utf-8", escrita |-> "none"]

\* a strict UTF-8 stream whose write does escrita
stdout_com(escrita) == [STDOUT_PADRAO EXCEPT !.escrita = escrita]

\* the exception print(texto) raises on the stream stdout for a message
\* made of the symbols of the source and texto, "none" when it raises
\* none: a closed file is refused first, then the message is encoded
\* (UnicodeEncodeError is a ValueError), then the bytes are written
print_levanta(texto, stdout) ==
    IF stdout.escrita = "ValueError" THEN "ValueError"
    ELSE IF /\ stdout.erros = "strict"
            /\ \/ Range(texto) \cap NAO_CODIFICAVEIS # {}
               \/ stdout.codificacao = "ascii"
         THEN "ValueError"
    ELSE stdout.escrita

\* the two ways a call ends: it returns valor, or it raises excecao
Retorno(valor) == [excecao |-> "none", valor |-> valor]

Levanta(excecao) == [excecao |-> excecao, valor |-> <<>>]

\* validate without the float() check
validate_unchecked(valor_str, valor_final, stdout) == Retorno(valor_final)

\* lines 60-67: float(valor_final) validates; on a failure the handler of
\* line 65 prints valor_str, which may raise, and then returns "0"
validate(valor_str, valor_final, stdout) ==
    IF float_ok(valor_final) THEN Retorno(valor_final)
    ELSE IF print_levanta(valor_str, stdout) # "none"
         THEN Levanta(print_levanta(valor_str, stdout))
         ELSE Retorno(ZERO)

\* lines 56-58: the sign is put back
restore_sign(is_negative, valor_final) ==
    IF is_negative THEN <<"-">> \o valor_final ELSE valor_final

\* lines 28-31: the text after the sign was taken off
unsigned(valor_limpo) ==
    IF startswith(valor_limpo, "-") THEN strip(Tail(valor_limpo))
    ELSE valor_limpo

\* the call converter_valor_brasileiro(valor_str) with sys.stdout in the
\* state stdout: line 37 returns without a print
converter_valor_brasileiro(valor_str, stdout) ==
    LET stripped    == strip(valor_str)
        is_negative == startswith(stripped, "-")
        valor_limpo == re_sub(unsigned(stripped))
    IN  IF valor_limpo = <<>> THEN Retorno(ZERO)
        ELSE validate(valor_str,
                      restore_sign(is_negative, digits_of(valor_limpo)),
                      stdout)

\* ------------------------------------------------------------------------
\* Amounts and their two written forms
\* ------------------------------------------------------------------------
\* integer digits grouped in threes from the right with '.'
RECURSIVE group3(_)
group3(ds) ==
    IF Len(ds) <= 3 THEN ds
    ELSE group3(SubSeq(ds, 1, Len(ds) - 3)) \o <<".">>
         \o SubSeq(ds, Len(ds) - 2, Len(ds))

\* "4.189,00": Brazilian style, as in the docstring examples
formato_brasileiro(inteiro, centavos) == group3(inteiro) \o <<",">> \o centavos

\* "4189.00": ungrouped integer digits, '.', two decimals
formato_canonico(inteiro, centavos) == inteiro \o <<".">> \o centavos

\* integer parts without a leading zero, except "0" itself
Inteiros(n) ==
    {ds \in SeqsUpTo(AmountDigits, n) :
        Len(ds) >= 1 /\ (Len(ds) > 1 => ds[1] # "0")}

Centavos == [1..2 -> AmountDigits]

\* the examples of the docstring, lines 18-22, and of the comment of line 53
Exemplos ==
    { <<"1", "8", ".", "6", "2", "9", ",", "2", "0">>,
      <<"-", "1", ".", "0", "4", "0", ",", "0", "0">>,
      <<"9", ".", "4", "5", "5", ",", "0", "0">>,
      <<"3", "7", "3", ",", "5", "0">>,
      <<"1", ".", "6", "2", "0", ",", "0", "0">>,
      <<"3", "7", "3", ".", "5", "0">>,
      <<"1", ".", "2", "3", "4">> }

\* optional '-', one or more digits, '.', exactly two digits
IsCanonical(s) ==
    LET u == IF startswith(s, "-") THEN Tail(s) ELSE s
    IN  /\ Len(u) >= 4
        /\ u[Len(u) - 2] = "."
        /\ \A i \in 1..Len(u) : i # Len(u) - 2 => u[i] \in Digits

\* ------------------------------------------------------------------------
\* The two handlers: processar_faturamento and processar_pedidos
\* ------------------------------------------------------------------------
Endpoints == {"faturamento", "pedidos"}

\* the width tested at lines 148 and 313
NumColunas(e) == IF e = "faturamento" THEN 10 ELSE 12

\* the marker substring of lines 139 and 305
MARCA == <<"d", "e", "s", "t", "a", "c">>

\* sub in s, for two strings
contains(sub, s) ==
    \E i \in 1..(Len(s) - Len(sub) + 1) :
        SubSeq(s, i, i + Len(sub) - 1) = sub

\* tem_marca that takes any class attribute for the marker
tem_marca_any_class(classes) == classes # <<>>

\* any("destac" in str(c) for c in classes)
tem_marca(classes) == \E k \in 1..Len(classes) : contains(MARCA, classes[k])

\* the exception types of the row-level handler, lines 223 and 373
Capturadas == {"IndexError", "AttributeError", "ValueError"}

\* the exception types a statement of the loop may raise; OSError stands
\* for every type the row-level handler does not name
Excecoes == Capturadas \cup {"OSError"}

\* where the first statement of an iteration raises, for a marked row:
\*   pre          the prints of lines 145 and 149 (311 and 314), after
\*                linhas_processadas += 1 and outside the try
\*   debug        the print of line 156 (319), in the width branch after
\*                linhas_ignoradas += 1 and outside the try, run when the
\*                row has a cell
\*   body         lines 162-178 (324-342) but the call of the converter, in
\*                the try: the cells are read and three texts printed
\*   conversor    the call of line 177 (341), in the try: the print of
\*                line 66 raises
\*   incompletos  the prints of lines 182-183 (345-346), in the try
\*   zerado       the print of line 191 (353), in the try of line 188 (350)
\*   devolucao    the print of line 198, after devolucoes += 1, in the try
\*                of line 188
\*   log          the print of line 221 (371), in the try after the append
Pontos ==
    {"pre", "debug", "body", "conversor", "incompletos", "zerado",
     "devolucao", "log"}

\* the points inside the try of line 188 (350)
PontosInternos == {"zerado", "devolucao"}

\* the points outside the try of line 160 (323)
PontosExternos == {"pre", "debug"}

\* the exception types of a point: the statements of "body" index the
\* cells, call get_text and print; the statements of the other points are
\* prints, which raise OSError and ValueError
ExcecoesEm(ponto) ==
    IF ponto = "body" THEN Excecoes ELSE {"ValueError", "OSError"}

\* what the statements of the row-level handler do, lines 224-229 and
\* 374-379: none raises, a print of line 224 or 225 raises ("antes", before
\* linhas_ignoradas += 1), or traceback.print_exc of line 228 raises
\* ("depois", after it)
EstadosTratador == {"none", "antes", "depois"}

\* no statement of the iteration raises
SemFalha ==
    [ponto |-> "none", tipo |-> "none", interno |-> "none", linha |-> "none"]

\* the ways the statements of one iteration raise: the point and the type
\* of the first exception, what the print of the handler of line 200 (356)
\* does when that handler runs (interno), and what the row-level handler
\* does when it runs (linha)
Falhas ==
    {SemFalha}
    \cup {f \in [ponto : Pontos, tipo : Excecoes,
                 interno : {"none", "ValueError", "OSError"},
                 linha : EstadosTratador] :
            /\ f.tipo \in ExcecoesEm(f.ponto)
            /\ f.interno # "none"
                 => f.ponto \in PontosInternos /\ f.tipo = "ValueError"
            /\ f.linha # "none"
                 => /\ f.ponto \notin PontosExternos
                    /\ f.tipo \in Capturadas
                    /\ f.ponto \in PontosInternos => f.interno = "ValueError"}

\* class lists of a <tr>: no class attribute, a class without the marker,
\* "destaca", and a list whose second token contains the marker
ClassLists ==
    { <<>>,
      << <<"h", "d", "r">> >>,
      << <<"d", "e", "s", "t", "a", "c", "a">> >>,
      << <<"h", "d", "r">>, <<"x", "d", "e", "s", "t", "a", "c", "b">> >> }

\* which required cell of a row is empty, if any: cliente and data, and
\* in processar_pedidos the order number
CamposVazios(e) ==
    {"nenhum", "cliente", "data"} \cup (IF e = "pedidos" THEN {"nr"} ELSE {})

\* the text of a required cell: empty or not
texto_de(campo, vazio) == IF campo = vazio THEN <<>> ELSE <<"A">>

\* text of the other cells
OUTRO == <<"x">>

\* amounts written in the total cell of a sale
QuantiasVenda ==
    { << <<"0">>, <<"0", "0">> >>,
      << <<"4", "8", "0">>, <<"0", "0">> >> }

\* amounts written after a '-' in the total cell of a return
QuantiasDevolucao ==
    { << <<"0">>, <<"0", "0">> >>,
      << <<"1", "0", "4", "0">>, <<"0", "0">> >> }

\* a total too small for a float: "0," then 400 zeros and a 1
TOTAL_MINUSCULO == <<"0", ",">> \o [i \in 1..400 |-> "0"] \o <<"1">>

\* a total written with non-ASCII digits, 12,50
TOTAL_ARABICO == <<"U+0661", "U+0662", ",", "U+0665", "U+0660">>

\* a total that float() rejects, so that the converter runs line 66
TOTAL_SEPARADOR == <<",">>

\* the total of the rows that differ from one another by class and width
TOTAL_VENDA == <<"4", "8", "0", ",", "0", "0">>

\* a zero total
TOTAL_ZERO == <<"0", ",", "0", "0">>

\* texts of the total cell: the amounts in Brazilian style, the same with
\* a leading '-', a text without any digit, a lone separator, a total
\* written with non-ASCII digits, and a total that underflows, with and
\* without '-'
Totais ==
    {formato_brasileiro(q[1], q[2]) : q \in QuantiasVenda}
    \cup {<<"-">> \o formato_brasileiro(q[1], q[2]) : q \in QuantiasDevolucao}
    \cup { <<"R">>, TOTAL_SEPARADOR, TOTAL_ARABICO, TOTAL_MINUSCULO,
           <<"-">> \o TOTAL_MINUSCULO }

\* cells[i] with Python's index
cell(cells, i) == cells[i + 1]

\* the texts of the <td> cells of a row n cells wide
Celulas(e, n, cliente, data, nr, total) ==
    [i \in 1..n |->
        IF e = "faturamento"
        THEN CASE i = 2 -> cliente
               [] i = 3 -> data
               [] i = 4 -> total
               [] OTHER -> OUTRO
        ELSE CASE i = 1 -> data
               [] i = 3 -> nr
               [] i = 5 -> cliente
               [] i = 11 -> total
               [] OTHER -> OUTRO]

Larguras(e) == (NumColunas(e) - WidthSlack)..(NumColunas(e) + WidthSlack)

\* the class lists that carry the marker
ClassesMarcadas ==
    {c \in ClassLists : \E k \in 1..Len(c) : contains(MARCA, c[k])}

\* the <tr> elements of a document: rows of every class list and width
\* with all required cells and a sale total, marked rows of the expected
\* width with all required cells and every total, and marked rows of the
\* expected width with every choice of empty cell and a sale or zero total
Linhas(e) ==
    {[classes |-> c,
      cells |-> Celulas(e, n, texto_de("cliente", "nenhum"),
                        texto_de("data", "nenhum"),
                        texto_de("nr", "nenhum"), TOTAL_VENDA)] :
        c \in ClassLists, n \in Larguras(e)}
    \cup {[classes |-> c,
           cells |-> Celulas(e, NumColunas(e), texto_de("cliente", "nenhum"),
                             texto_de("data", "nenhum"),
                             texto_de("nr", "nenhum"), total)] :
            c \in ClassesMarcadas, total \in Totais}
    \cup {[classes |-> c,
           cells |-> Celulas(e, NumColunas(e), texto_de("cliente", vazio),
                             texto_de("data", vazio),
                             texto_de("nr", vazio), total)] :
            c \in ClassesMarcadas, vazio \in CamposVazios(e),
            total \in {TOTAL_VENDA, TOTAL_ZERO}}

\* 2^-1075, half of the smallest positive float, is 0.00...0247..., with
\* ZEROS_MEIO_MINIMO zeros after the point and then the digits of 5^1075:
\* float() rounds a value up to it to 0.0 and a larger one to a non-zero
\* float
ZEROS_MEIO_MINIMO == 323

DIGITOS_MEIO_MINIMO ==
    << 2, 4, 7, 0, 3, 2, 8, 2, 2, 9, 2, 0, 6, 2, 3, 2, 7, 2, 0, 8, 8, 2, 8, 4, 3, 9, 6, 4, 3, 4,
       1, 1, 0, 6, 8, 6, 1, 8, 2, 5, 2, 9, 9, 0, 1, 3, 0, 7, 1, 6, 2, 3, 8, 2, 2, 1, 2, 7, 9, 2,
       8, 4, 1, 2, 5, 0, 3, 3, 7, 7, 5, 3, 6, 3, 5, 1, 0, 4, 3, 7, 5, 9, 3, 2, 6, 4, 9, 9, 1, 8,
       1, 8, 0, 8, 1, 7, 9, 9, 6, 1, 8, 9, 8, 9, 8, 2, 8, 2, 3, 4, 7, 7, 2, 2, 8, 5, 8, 8, 6, 5,
       4, 6, 3, 3, 2, 8, 3, 5, 5, 1, 7, 7, 9, 6, 9, 8, 9, 8, 1, 9, 9, 3, 8, 7, 3, 9, 8, 0, 0, 5,
       3, 9, 0, 9, 3, 9, 0, 6, 3, 1, 5, 0, 3, 5, 6, 5, 9, 5, 1, 5, 5, 7, 0, 2, 2, 6, 3, 9, 2, 2,
       9, 0, 8, 5, 8, 3, 9, 2, 4, 4, 9, 1, 0, 5, 1, 8, 4, 4, 3, 5, 9, 3, 1, 8, 0, 2, 8, 4, 9, 9,
       3, 6, 5, 3, 6, 1, 5, 2, 5, 0, 0, 3, 1, 9, 3, 7, 0, 4, 5, 7, 6, 7, 8, 2, 4, 9, 2, 1, 9, 3,
       6, 5, 6, 2, 3, 6, 6, 9, 8, 6, 3, 6, 5, 8, 4, 8, 0, 7, 5, 7, 0, 0, 1, 5, 8, 5, 7, 6, 9, 2,
       6, 9, 9, 0, 3, 7, 0, 6, 3, 1, 1, 9, 2, 8, 2, 7, 9, 5, 5, 8, 5, 5, 1, 3, 3, 2, 9, 2, 7, 8,
       3, 4, 3, 3, 8, 4, 0, 9, 3, 5, 1, 9, 7, 8, 0, 1, 5, 5, 3, 1, 2, 4, 6, 5, 9, 7, 2, 6, 3, 5,
       7, 9, 5, 7, 4, 6, 2, 2, 7, 6, 6, 4, 6, 5, 2, 7, 2, 8, 2, 7, 2, 2, 0, 0, 5, 6, 3, 7, 4, 0,
       0, 6, 4, 8, 5, 4, 9, 9, 9, 7, 7, 0, 9, 6, 5, 9, 9, 4, 7, 0, 4, 5, 4, 0, 2, 0, 8, 2, 8, 1,
       6, 6, 2, 2, 6, 2, 3, 7, 8, 5, 7, 3, 9, 3, 4, 5, 0, 7, 3, 6, 3, 3, 9, 0, 0, 7, 9, 6, 7, 7,
       6, 1, 9, 3, 0, 5, 7, 7, 5, 0, 6, 7, 4, 0, 1, 7, 6, 3, 2, 4, 6, 7, 3, 6, 0, 0, 9, 6, 8, 9,
       5, 1, 3, 4, 0, 5, 3, 5, 5, 3, 7, 4, 5, 8, 5, 1, 6, 6, 6, 1, 1, 3, 4, 2, 2, 3, 7, 6, 6, 6,
       7, 8, 6, 0, 4, 1, 6, 2, 1, 5, 9, 6, 8, 0, 4, 6, 1, 9, 1, 4, 4, 6, 7, 2, 9, 1, 8, 4, 0, 3,
       0, 0, 5, 3, 0, 0, 5, 7, 5, 3, 0, 8, 4, 9, 0, 4, 8, 7, 6, 5, 3, 9, 1, 7, 1, 1, 3, 8, 6, 5,
       9, 1, 6, 4, 6, 2, 3, 9, 5, 2, 4, 9, 1, 2, 6, 2, 3, 6, 5, 3, 8, 8, 1, 8, 7, 9, 6, 3, 6, 2,
       3, 9, 3, 7, 3, 2, 8, 0, 4, 2, 3, 8, 9, 1, 0, 1, 8, 6, 7, 2, 3, 4, 8, 4, 9, 7, 6, 6, 8, 2,
       3, 5, 0, 8, 9, 8, 6, 3, 3, 8, 8, 5, 8, 7, 9, 2, 5, 6, 2, 8, 3, 0, 2, 7, 5, 5, 9, 9, 5, 6,
       5, 7, 5, 2, 4, 4, 5, 5, 5, 0, 7, 2, 5, 5, 1, 8, 9, 3, 1, 3, 6, 9, 0, 8, 3, 6, 2, 5, 4, 7,
       7, 9, 1, 8, 6, 9, 4, 8, 6, 6, 7, 9, 9, 4, 9, 6, 8, 3, 2, 4, 0, 4, 9, 7, 0, 5, 8, 2, 1, 0,
       2, 8, 5, 1, 3, 1, 8, 5, 4, 5, 1, 3, 9, 6, 2, 1, 3, 8, 3, 7, 7, 2, 2, 8, 2, 6, 1, 4, 5, 4,
       3, 7, 6, 9, 3, 4, 1, 2, 5, 3, 2, 0, 9, 8, 5, 9, 1, 3, 2, 7, 6, 6, 7, 2, 3, 6, 3, 2, 8, 1,
       2, 5 >>

\* the i-th decimal digit of 2^-1075
digito_meio_minimo(i) ==
    IF i <= ZEROS_MEIO_MINIMO THEN 0
    ELSE IF i - ZEROS_MEIO_MINIMO <= Len(DIGITOS_MEIO_MINIMO)
         THEN DIGITOS_MEIO_MINIMO[i - ZEROS_MEIO_MINIMO]
         ELSE 0

\* the decimals frac do not exceed those of 2^-1075: a digit of frac above
\* the digit of 2^-1075 comes after one below it
arredonda_para_zero(frac) ==
    \A i \in 1..Len(frac) :
        valor_digito(frac[i]) > digito_meio_minimo(i)
        => \E j \in 1..(i - 1) :
              valor_digito(frac[j]) < digito_meio_minimo(j)

\* float(total) == 0, for a string float accepts: the integer part is zero
\* and the decimals are at most 2^-1075, so that 0.0, -0.0 and the values
\* that underflow are all zero
float_is_zero(total) ==
    LET u == IF startswith(total, "-") THEN Tail(total) ELSE total
        p == find(u, ".", 1)
        inteiro == IF p = 0 THEN u ELSE SubSeq(u, 1, p - 1)
        frac == IF p = 0 THEN <<>> ELSE SubSeq(u, p + 1, Len(u))
    IN  /\ \A i \in 1..Len(inteiro) : valor_digito(inteiro[i]) = 0
        /\ arredonda_para_zero(frac)

\* float(total) < 0
float_is_negative(total) == startswith(total, "-") /\ ~float_is_zero(total)

\* lines 165 and 334: the text of the total cell
total_str(e, cells) ==
    IF e = "faturamento" THEN cell(cells, 3) ELSE cell(cells, 10)

\* lines 181 and 344: a required field is empty
dados_incompletos(e, cells) ==
    IF e = "faturamento"
    THEN cell(cells, 1) = <<>> \/ cell(cells, 2) = <<>>
    ELSE cell(cells, 2) = <<>> \/ cell(cells, 4) = <<>> \/ cell(cells, 0) = <<>>

\* lines 188-203 and 350-359: the total is rejected
total_rejeitado(e, total) ==
    \/ ~float_ok(total)
    \/ float_is_zero(total)
    \/ (e = "pedidos" /\ float_is_negative(total))

\* the width test of lines 148 and 313
largura_errada(e, cells) == Len(cells) # NumColunas(e)

\* lines 206-217 and 361-368: the record of an accepted row
item(e, cells, total) ==
    IF e = "faturamento"
    THEN [cod_cli_for |-> cell(cells, 0), cliente |-> cell(cells, 1),
          data |-> cell(cells, 2), total |-> total,
          vendedor |-> cell(cells, 4), ref_produto |-> cell(cells, 5),
          grupo |-> cell(cells, 6), marca |-> cell(cells, 7),
          cidade |-> cell(cells, 8), estado |-> cell(cells, 9)]
    ELSE [data |-> cell(cells, 0), entrega_prod |-> cell(cells, 1),
          nr_pedido |-> cell(cells, 2), cliente |-> cell(cells, 4),
          vendedor |-> cell(cells, 6), total |-> total]

\* how an iteration ends: nome is the continue or the end of the body by
\* which control left it ("sem_marca", "largura", "campos_vazios", "total",
\* "aceita") or, when a statement raised, the point of the first exception;
\* excecao says that a statement raised; ignorada, devolucao and registro
\* say whether linhas_ignoradas += 1, devolucoes += 1 and the append ran;
\* geral says that an exception reached the handler of line 245 (391)
Fim(nome, ignorada, devolucao, registro, geral) ==
    [nome |-> nome, excecao |-> nome \in Pontos, ignorada |-> ignorada,
     devolucao |-> devolucao, registro |-> registro, geral |-> geral]

\* lines 223-229 and 373-379: the row-level handler; an exception of its
\* own statements reaches the handler of line 245 (391)
tratador_linha(nome, falha, devolucao, registro) ==
    IF falha.linha = "antes" THEN Fim(nome, FALSE, devolucao, registro, TRUE)
    ELSE IF falha.linha = "depois"
         THEN Fim(nome, TRUE, devolucao, registro, TRUE)
         ELSE Fim(nome, TRUE, devolucao, registro, FALSE)

\* lines 200-203 and 356-359: the handler of the try of line 188 (350);
\* a ValueError of its print is caught at line 223 (373), another
\* exception reaches the handler of line 245 (391)
tratador_interno(nome, falha, devolucao) ==
    IF falha.interno = "ValueError"
    THEN tratador_linha(nome, falha, devolucao, FALSE)
    ELSE IF falha.interno # "none"
         THEN Fim(nome, FALSE, devolucao, FALSE, TRUE)
         ELSE Fim(nome, TRUE, devolucao, FALSE, FALSE)

\* an exception of type tipo raised in the try of line 160 (323), outside
\* the try of line 188 (350)
levanta_no_try(nome, tipo, falha, devolucao, registro) ==
    IF tipo \in Capturadas
    THEN tratador_linha(nome, falha, devolucao, registro)
    ELSE Fim(nome, FALSE, devolucao, registro, TRUE)

\* an exception of type tipo raised in the try of line 188 (350)
levanta_no_try_interno(nome, tipo, falha, devolucao) ==
    IF tipo = "ValueError" THEN tratador_interno(nome, falha, devolucao)
    ELSE levanta_no_try(nome, tipo, falha, devolucao, FALSE)

\* line 177 (341): the call of the converter for the row
conversao(e, cells, falha) ==
    converter_valor_brasileiro(
        total_str(e, cells),
        IF falha.ponto = "conversor" THEN stdout_com(falha.tipo)
        ELSE STDOUT_PADRAO)

\* lines 136-229 and 303-379: how the body of the loop ends for the row,
\* when its statements raise as falha says
saida(e, row, falha) ==
    LET cells == row.cells
        conv  == conversao(e, cells, falha)
        total == conv.valor
        devolucao == e = "faturamento" /\ float_is_negative(total)
    IN  IF ~tem_marca(row.classes)
        THEN Fim("sem_marca", FALSE, FALSE, FALSE, FALSE)
        ELSE IF falha.ponto = "pre"
        THEN Fim("pre", FALSE, FALSE, FALSE, TRUE)
        ELSE IF largura_errada(e, cells)
        THEN (IF falha.ponto = "debug" /\ Len(cells) > 0
              THEN Fim("debug", TRUE, FALSE, FALSE, TRUE)
              ELSE Fim("largura", TRUE, FALSE, FALSE, FALSE))
        ELSE IF falha.ponto = "body"
        THEN levanta_no_try("body", falha.tipo, falha, FALSE, FALSE)
        ELSE IF conv.excecao # "none"
        THEN levanta_no_try("conversor", conv.excecao, falha, FALSE, FALSE)
        ELSE IF dados_incompletos(e, cells)
        THEN (IF falha.ponto = "incompletos"
              THEN levanta_no_try("incompletos", falha.tipo, falha,
                                  FALSE, FALSE)
              ELSE Fim("campos_vazios", TRUE, FALSE, FALSE, FALSE))
        ELSE IF total_rejeitado(e, total)
        THEN (IF falha.ponto = "zerado"
              THEN levanta_no_try_interno("zerado", falha.tipo, falha, FALSE)
              ELSE Fim("total", TRUE, FALSE, FALSE, FALSE))
        ELSE IF falha.ponto = "devolucao" /\ devolucao
        THEN levanta_no_try_interno("devolucao", falha.tipo, falha, TRUE)
        ELSE IF falha.ponto = "log"
        THEN levanta_no_try("log", falha.tipo, falha, devolucao, TRUE)
        ELSE Fim("aceita", FALSE, devolucao, TRUE, FALSE)

VARIABLES
    endpoint,            \* which handler runs
    pc,                  \* "start", "loop", "body", "geral" (in the handler
                         \* of line 245/391), "returned" or "raised"
    lidas,               \* <tr> elements the loop has taken so far
    tr,                  \* the <tr> of the current iteration
    faturamento,         \* the record list (pedidos in processar_pedidos)
    linhas_processadas,
    linhas_ignoradas,
    devolucoes,          \* stays 0 in processar_pedidos, which has none
    resposta,            \* the returned list
    desfecho,            \* history: how the last iteration ended, whether
                         \* a statement of it raised, and the number of
                         \* cells it counted (line 145/311)
    \* one call of converter_valor_brasileiro on its own
    tipo,        \* how the input was written: "raw", "br" or "canon"
    quantia,     \* <<inteiro, centavos>> of a written amount, <<>> for raw
    valor_str,   \* the argument
    retorno,     \* the returned string
    erro,        \* the exception the call raised, "none" when it returned
    cpc          \* "call" before the call, "return" or "raise" after it,
                 \* else "idle"

hvars == <<endpoint, pc, lidas, tr, faturamento, linhas_processadas,
           linhas_ignoradas, devolucoes, resposta, desfecho>>

cvars == <<tipo, quantia, valor_str, retorno, erro, cpc>>

vars == <<hvars, cvars>>

contadores == <<linhas_processadas, linhas_ignoradas, devolucoes>>

SemLinha == [classes |-> <<>>, cells |-> <<>>]

SemDesfecho == [saida |-> "none", excecao |-> FALSE, celulas |-> 0]

Init ==
    /\ endpoint \in Endpoints
    /\ pc = "start"
    /\ lidas = 0
    /\ tr = SemLinha
    /\ faturamento = <<>>
    /\ linhas_processadas = 0
    /\ linhas_ignoradas = 0
    /\ devolucoes = 0
    /\ resposta = <<>>
    /\ desfecho = SemDesfecho
    /\ tipo = "raw" /\ quantia = <<>> /\ valor_str = <<>>
    /\ retorno = <<>> /\ erro = "none" /\ cpc = "idle"

\* lines 115-117 and 283-285: no HTML, the handler returns [] unless the
\* print of line 116 raises
HtmlVazio ==
    /\ pc = "start"
    /\ \E stdout \in EstadosStdout :
          pc' = IF print_levanta(<<>>, stdout) = "none" THEN "returned"
                ELSE "geral"
    /\ UNCHANGED <<endpoint, lidas, tr, faturamento, contadores, resposta,
                   desfecho, cvars>>

\* lines 106-133 and 274-300: the body is decoded and the document parsed,
\* then the loop starts, unless a statement raises: decode on a body that
\* is not UTF-8, len(html) on an html_email that is not a text, a print
Parse ==
    /\ pc = "start"
    /\ \E levanta \in BOOLEAN : pc' = IF levanta THEN "geral" ELSE "loop"
    /\ UNCHANGED <<endpoint, lidas, tr, faturamento, contadores, resposta,
                   desfecho, cvars>>

\* lines 135 and 302: the loop takes the next <tr> of the document
ProximaLinha ==
    /\ pc = "loop"
    /\ lidas < MaxRows
    /\ tr' \in Linhas(endpoint)
    /\ lidas' = lidas + 1
    /\ pc' = "body"
    /\ desfecho' = SemDesfecho
    /\ UNCHANGED <<endpoint, faturamento, contadores, resposta, cvars>>

\* lines 136-229 and 303-379: the body of the loop for the row tr
ProcessaLinha ==
    /\ pc = "body"
    /\ \E falha \in Falhas :
          LET s == saida(endpoint, tr, falha)
          IN  /\ desfecho' = [saida |-> s.nome,
                              excecao |-> s.excecao,
                              celulas |-> IF s.nome = "sem_marca" THEN 0
                                          ELSE Len(tr.cells)]
              /\ linhas_processadas' =
                   IF s.nome = "sem_marca" THEN linhas_processadas
                   ELSE linhas_processadas + 1
              /\ linhas_ignoradas' =
                   IF s.ignorada THEN linhas_ignoradas + 1
                   ELSE linhas_ignoradas
              /\ faturamento' =
                   IF s.registro
                   THEN Append(faturamento,
                               item(endpoint, tr.cells,
                                    conversao(endpoint, tr.cells, falha).valor))
                   ELSE faturamento
              /\ devolucoes' =
                   IF s.devolucao THEN devolucoes + 1 ELSE devolucoes
              /\ pc' = IF s.geral THEN "geral" ELSE "loop"
    /\ tr' = SemLinha
    /\ UNCHANGED <<endpoint, lidas, resposta, cvars>>

\* lines 231-243 and 381-389: the document has no more <tr>; the summary
\* is printed and the list returned, unless a print of the summary raises
Retorna ==
    /\ pc = "loop"
    /\ \E stdout \in EstadosStdout :
          /\ pc' = IF print_levanta(<<>>, stdout) = "none" THEN "returned"
                   ELSE "geral"
          /\ resposta' = IF print_levanta(<<>>, stdout) = "none"
                         THEN faturamento ELSE resposta
    /\ UNCHANGED <<endpoint, lidas, tr, faturamento, contadores, desfecho,
                   cvars>>

\* lines 245-249 and 391-395: the handler of an exception that left the
\* try of line 105 (273) returns [], unless its print or
\* traceback.print_exc raises: then the exception leaves the function
ErroGeral ==
    /\ pc = "geral"
    /\ \E levanta \in BOOLEAN :
          pc' = IF levanta THEN "raised" ELSE "returned"
    /\ resposta' = <<>>
    /\ UNCHANGED <<endpoint, lidas, tr, faturamento, contadores, desfecho,
                   cvars>>

Next ==
    HtmlVazio \/ Parse \/ ProximaLinha \/ ProcessaLinha \/ Retorna \/ ErroGeral

Spec == Init /\ [][Next]_vars

\* ------------------------------------------------------------------------
\* The converter applied to one input
\* ------------------------------------------------------------------------
InitConv ==
    /\ endpoint = "faturamento" /\ pc = "idle" /\ lidas = 0
    /\ tr = SemLinha /\ faturamento = <<>> /\ resposta = <<>>
    /\ linhas_processadas = 0 /\ linhas_ignoradas = 0 /\ devolucoes = 0
    /\ desfecho = SemDesfecho
    /\ cpc = "call"
    /\ retorno = <<>>
    /\ erro = "none"
    /\ \/ /\ tipo = "raw"
          /\ quantia = <<>>
          /\ valor_str \in SeqsUpTo(Alphabet, MaxLen) \cup Exemplos
       \/ /\ tipo \in {"br", "canon"}
          /\ quantia \in Inteiros(MaxIntDigits) \X Centavos
          /\ valor_str = IF tipo = "br"
                         THEN formato_brasileiro(quantia[1], quantia[2])
                         ELSE formato_canonico(quantia[1], quantia[2])
       \/ /\ tipo = "canon"
          /\ quantia \in Inteiros(MaxIntDigits) \X Centavos
          /\ valor_str = <<"-">> \o formato_canonico(quantia[1], quantia[2])

\* one call of the converter, with sys.stdout in any of its states
Converter ==
    /\ cpc = "call"
    /\ \E stdout \in EstadosStdout :
          LET r == converter_valor_brasileiro(valor_str, stdout)
          IN  /\ retorno' = r.valor
              /\ erro' = r.excecao
              /\ cpc' = IF r.excecao = "none" THEN "return" ELSE "raise"
    /\ UNCHANGED <<tipo, quantia, valor_str, hvars>>

NextConv == Converter

SpecConv == InitConv /\ [][NextConv]_vars

\* ------------------------------------------------------------------------
\* Properties of converter_valor_brasileiro, checked under SpecConv
\* ------------------------------------------------------------------------
\* s without its leading '-'
SemSinal(s) == IF s # <<>> /\ s[1] = "-" THEN Tail(s) ELSE s

\* an optional '-', then digits with at most one '.', at least one digit
IsNumeral(s) ==
    LET u == SemSinal(s)
    IN  /\ \E k \in 0..Len(u) :
              \A i \in 1..Len(u) :
                  IF i = k THEN u[i] = "." ELSE u[i] \in Digits
        /\ \E i \in 1..Len(u) : u[i] \in Digits

\* C1 as stated: every string the converter returns is a canonical decimal
\* string, an optional '-', digits, a '.', and exactly two digits.
C1_Original == cpc = "return" => IsCanonical(retorno)

\* C1 amended: every string the converter returns is a decimal numeral, an
\* optional '-' followed by digits with at most one '.', and it carries
\* exactly as many decimals as the input gave it: two for an amount written
\* in Brazilian style with two decimals, none for "1.234" or for "0".
C1_Numeral ==
    cpc = "return" =>
        /\ IsNumeral(retorno)
        /\ tipo = "br" => IsCanonical(retorno)

C1_Witness ==
    /\ cpc = "return"
    /\ valor_str = <<"1", ".", "2", "3", "4">>
    /\ retorno = <<"1", "2", "3", "4">>

\* C2: an amount written in Brazilian style, integer digits grouped in
\* threes with '.', then ',' and two decimals, converts to the same amount
\* written with ungrouped integer digits, '.', and the two decimals.
C2_RoundTrip ==
    (cpc = "return" /\ tipo = "br") =>
        retorno = formato_canonico(quantia[1], quantia[2])

C2_Witness ==
    /\ cpc = "return"
    /\ tipo = "br"
    /\ valor_str = <<"1", ".", "0", "0", "0", ".", "0", "0", "0", ",", "9", "0">>
    /\ retorno = <<"1", "0", "0", "0", "0", "0", "0", ".", "9", "0">>

\* the input has no digit: it is empty after trimming, or nothing or only
\* separators are left after stripping
SemDigito(s) == \A i \in 1..Len(s) : s[i] \notin Digits

\* C8 as stated: for every input without a digit the converter does not
\* fail and returns "0.00".
C8_Original ==
    (cpc \in {"return", "raise"} /\ SemDigito(valor_str)) =>
        /\ cpc = "return"
        /\ retorno = <<"0", ".", "0", "0">>

\* C9: the converter returns every canonical decimal string unchanged.
C9_Idempotent ==
    (cpc = "return" /\ IsCanonical(valor_str)) => retorno = valor_str

C9_Witness ==
    /\ cpc = "return"
    /\ valor_str = <<"-", "1", "9", ".", "0", "1">>
    /\ retorno = <<"-", "1", "9", ".", "0", "1">>

\* ------------------------------------------------------------------------
\* Properties of the handlers, checked under Spec
\* ------------------------------------------------------------------------
\* a token of the class list contains "destac"
Marcada(row) ==
    \E k \in 1..Len(row.classes) :
        \E i \in 1..Len(row.classes[k]) :
            /\ i + 5 <= Len(row.classes[k])
            /\ SubSeq(row.classes[k], i, i + 5) = <<"d", "e", "s", "t", "a", "c">>

\* the string the converter returns for a text it can print
convertido(s) == converter_valor_brasileiro(s, STDOUT_PADRAO).valor

\* in this step of the loop body a statement raises
Levantada == desfecho'.excecao

\* every digit of s has the value 0: s is numerically zero
ZeroNumerico(s) ==
    \A i \in 1..Len(s) : s[i] \in {"0", "U+0660", ".", "-"}

\* a '-' followed by an amount in Brazilian style that is not zero:
\* digits, '.' and ',' with a digit other than 0
NegativoNaoZero(s) ==
    /\ s # <<>>
    /\ s[1] = "-"
    /\ \A i \in 2..Len(s) : s[i] \in Digits \cup {".", ","}
    /\ \E i \in 2..Len(s) : s[i] \in Digits /\ valor_digito(s[i]) # 0

\* the list grew by exactly the record r
Acrescenta(r) ==
    /\ Len(faturamento') = Len(faturamento) + 1
    /\ SubSeq(faturamento', 1, Len(faturamento)) = faturamento
    /\ faturamento'[Len(faturamento')] = r

\* C3 as stated: in processar_faturamento every marked row with 10 cells,
\* client and date, and a total made of '-' and a non-zero Brazilian amount
\* is accepted: it yields a record whose "Total Item" keeps the '-' and is
\* the amount in canonical form ("-1.040,00" gives "-1040.00"); the row is
\* not rejected.
C3_Original ==
    [][ (/\ pc = "body"
         /\ endpoint = "faturamento"
         /\ Marcada(tr)
         /\ Len(tr.cells) = 10
         /\ tr.cells[2] # <<>>
         /\ tr.cells[3] # <<>>
         /\ NegativoNaoZero(tr.cells[4]))
        => /\ Len(faturamento') = Len(faturamento) + 1
           /\ faturamento'[Len(faturamento')].total[1] = "-"
           /\ \A q \in QuantiasDevolucao :
                tr.cells[4] = <<"-">> \o formato_brasileiro(q[1], q[2])
                => faturamento'[Len(faturamento')].total
                     = <<"-">> \o formato_canonico(q[1], q[2])
           /\ linhas_ignoradas' = linhas_ignoradas
           /\ pc' = "loop" ]_vars

\* C4 as stated: processar_faturamento never holds or returns a record
\* whose "Total Item" is numerically zero; a marked 10-cell row whose total
\* converts to zero is counted as ignored and adds no record, and every
\* marked 10-cell row with client, date and a non-zero total adds exactly
\* one record, whatever the other rows of the batch are.
C4_Original ==
    [][ /\ endpoint = "faturamento" =>
             /\ \A i \in 1..Len(faturamento') :
                    ~ZeroNumerico(faturamento'[i].total)
             /\ \A i \in 1..Len(resposta') :
                    ~ZeroNumerico(resposta'[i].total)
        /\ (/\ pc = "body"
            /\ endpoint = "faturamento"
            /\ Marcada(tr)
            /\ Len(tr.cells) = 10)
           => LET total == convertido(tr.cells[4])
              IN  IF ZeroNumerico(total)
                  THEN /\ faturamento' = faturamento
                       /\ linhas_ignoradas' = linhas_ignoradas + 1
                  ELSE (tr.cells[2] # <<>> /\ tr.cells[3] # <<>>)
                       => /\ Acrescenta(item("faturamento", tr.cells, total))
                          /\ linhas_ignoradas' = linhas_ignoradas ]_vars

\* the row passes the rule of the required fields and the rule of the total
PassaRegras(e, row) ==
    /\ ~dados_incompletos(e, row.cells)
    /\ ~total_rejeitado(e, convertido(total_str(e, row.cells)))

\* C5 as stated: every marked row with at least 10 (12 in processar_pedidos)
\* cells that passes the required-field and total rules produces a record.
C5_Original ==
    [][ (/\ pc = "body"
         /\ Marcada(tr)
         /\ Len(tr.cells) >= NumColunas(endpoint)
         /\ PassaRegras(endpoint, tr))
        => Len(faturamento') = Len(faturamento) + 1 ]_vars

\* C6 as stated: an exception of any kind raised while a candidate row is
\* processed drops only that row and counts it as ignored; the loop goes
\* on with the next row and the records accepted before stay in the list.
C6_Original ==
    [][ (pc = "body" /\ Levantada)
        => /\ faturamento' = faturamento
           /\ linhas_ignoradas' = linhas_ignoradas + 1
           /\ pc' = "loop" ]_vars

\* C7: a <tr> without a class token containing "destac", a <tr> without a
\* class attribute included, adds no record and changes no counter.
C7_UnmarkedSkipped ==
    [][ (pc = "body" /\ ~Marcada(tr))
        => /\ UNCHANGED <<faturamento, linhas_processadas,
                          linhas_ignoradas, devolucoes, resposta>>
           /\ pc' = "loop" ]_vars

C7_Witness ==
    /\ desfecho.saida = "sem_marca"
    /\ lidas = 2
    /\ linhas_processadas = 1
    /\ linhas_ignoradas = 0
    /\ Len(faturamento) = 1

\* C10 as stated: after each iteration and at return linhas_processadas is
\* the number of records of the output list plus linhas_ignoradas.
C10_Original ==
    /\ pc = "loop" =>
         linhas_processadas = Len(faturamento) + linhas_ignoradas
    /\ pc = "returned" =>
         linhas_processadas = Len(resposta) + linhas_ignoradas
====
